---- MODULE Spec2Model ----
(***************************************************************************)
(* A model of oxDNA_analysis_tools/UTILS/boilerplate.py: the Simulation    *)
(* handle (run / terminate / is_alive over a multiprocessing.Process) and  *)
(* setup_simulation (the composition of a simulation directory).           *)
(***************************************************************************)
EXTENDS Integers, Sequences, FiniteSets, TLC

VARIABLES
    procs,    \* the engine processes spawned so far, by spawn order: their OS state
    p,        \* Simulation.p: 0 for None, else the index in procs of the Process object
    calls,    \* number of Simulation method calls made so far
    last,     \* the method of the most recent call
    prev,     \* the method of the call before it
    seen,     \* the state of the handle's process when the most recent call began
    ret,      \* what the most recent call returned
    out,      \* what the most recent call printed
    err,      \* the exception the most recent call raised, "none" if it returned
    fs,       \* the file system: absolute path |-> node
    cwdLive,  \* the process's current directory still exists
    call,     \* the arguments of the most recent setup_simulation call
    res,      \* its outcome
    partial,  \* the arguments of the last failed call that had changed the file system
    traj,     \* trajectory.dat in out_dir: -1 if it is not there, else its number of frames
    acc,      \* the most recent get_conf call: its id, the count it read, whether it called get_confs
    cwd,      \* the location of the process's current directory, as chdir moves it
    old_path, \* PathContext.old_path of each PathContext object
    stack,    \* per flow of control: the PathContext objects it is inside, outermost first
    exc,      \* per flow of control: an exception is propagating
    log,      \* what the flows have done to the PathContext objects, in order
    sim,      \* the Simulation object: made or not, its input file path, out_dir and parsed input file
    edits,    \* the version of the input file on disk: the number of edits since it was composed
    runs      \* per process of procs: what Process(...) was given and what _prun did with it

simVars  == <<procs, p, calls, last, prev, seen, ret, out, err>>
compVars == <<fs, cwdLive, call, res, partial>>
trajVars == <<traj, acc>>
pathVars == <<cwd, old_path, stack, exc, log>>
startVars == <<sim, edits, runs>>
vars     == <<simVars, compVars, trajVars, pathVars, startVars>>

\* bound: the number of Simulation method calls explored
MaxCalls == 5

\* frames the engine writes at most
MaxFrames == 2

\* PathContext objects a flow of control is inside at most
MaxDepth == 2

\* steps of the flows of control on PathContext objects at most
MaxEvents == 5

\* edits of the input file at most
MaxEdits == 2

\* processes started on the Simulation object at most
MaxStarts == 2

----------------------------------------------------------------------------
(* Python values as they are printed.                                        *)

PyBool(b) == IF b THEN "True" ELSE "False"

----------------------------------------------------------------------------
(* The Simulation handle.                                                    *)
(* A process is "initial" (Process object made, never started), "running",   *)
(* "signalled" (SIGTERM sent, still executing) or "exited".                  *)

Executing(ps) == {i \in 1..Len(ps) : ps[i] \in {"running", "signalled"}}

\* multiprocessing.Process.is_alive(): False for a process never started
ProcessIsAlive(ps, i) == ps[i] \in {"running", "signalled"}

\* multiprocessing.Process.terminate(): sends SIGTERM and returns at once;
\* gone says whether the process has already died when the call returns.
\* It raises on a Process that was never started (its _popen is None).
ProcessTerminateRaises(ps, i) == ps[i] = "initial"

ProcessTerminate(ps, i, gone) ==
    IF ps[i] \in {"running", "signalled"}
    THEN [ps EXCEPT ![i] = IF gone THEN "exited" ELSE "signalled"]
    ELSE ps

\* Simulation.__init__: no process reference
InitSim ==
    /\ procs = << >>
    /\ p = 0
    /\ calls = 0
    /\ last = "init"
    /\ prev = "init"
    /\ seen = "None"
    /\ ret = "None"
    /\ out = ""
    /\ err = "none"

\* the handle's process as a call finds it
Seen == IF p = 0 THEN "None" ELSE procs[p]

Called(op) ==
    /\ calls < MaxCalls
    /\ calls' = calls + 1
    /\ last' = op
    /\ prev' = last
    /\ seen' = Seen

\* Simulation.is_alive: prints the answer, returns nothing
is_alive ==
    /\ Called("is_alive")
    /\ out' = IF p # 0 THEN PyBool(ProcessIsAlive(procs, p)) ELSE PyBool(FALSE)
    /\ ret' = "None"
    /\ err' = "none"
    /\ UNCHANGED <<procs, p>>

\* terminate without its test of the process reference
TerminateUnguarded(ps, ref, gone) ==
    IF ref = 0 \/ ProcessTerminateRaises(ps, ref)
    THEN [procs |-> ps, err |-> "AttributeError", out |-> ""]
    ELSE [procs |-> ProcessTerminate(ps, ref, gone), err |-> "none", out |-> "you evil..."]

\* the body of Simulation.terminate on process reference ref: the process
\* table, the exception and the printed text it leaves
TerminateBody(ps, ref, gone) ==
    IF ref # 0
    THEN IF ProcessTerminateRaises(ps, ref)
         THEN [procs |-> ps, err |-> "AttributeError", out |-> ""]
         ELSE [procs |-> ProcessTerminate(ps, ref, gone), err |-> "none",
               out |-> "you evil..."]
    ELSE [procs |-> ps, err |-> "none", out |-> ""]

\* Simulation.terminate
terminate ==
    /\ Called("terminate")
    /\ \E gone \in BOOLEAN :
         LET t == TerminateBody(procs, p, gone)
         IN  /\ procs' = t.procs
             /\ err' = t.err
             /\ out' = t.out
    /\ ret' = "None"
    /\ UNCHANGED p

\* Simulation.run: terminate() if there is a process reference, then
\* Process(target=_prun, ...) and p.start(); spawned says whether start() worked
run ==
    /\ Called("run")
    /\ \E gone \in BOOLEAN, spawned \in BOOLEAN :
         LET t == IF p # 0 THEN TerminateBody(procs, p, gone)
                  ELSE [procs |-> procs, err |-> "none", out |-> ""]
         IN  IF t.err # "none"
             THEN /\ err' = t.err
                  /\ out' = t.out
                  /\ ret' = "None"
                  /\ UNCHANGED <<procs, p>>
             ELSE /\ procs' = Append(t.procs, IF spawned THEN "running" ELSE "initial")
                  /\ p' = Len(procs) + 1
                  /\ out' = t.out
                  /\ err' = IF spawned THEN "none" ELSE "OSError"
                  /\ ret' = IF spawned THEN "self" ELSE "None"

\* the operating system: an executing engine process ends, on its own
\* (run_complete returned) or because the signal it was sent took effect
ProcExit ==
    \E i \in Executing(procs) :
        /\ procs' = [procs EXCEPT ![i] = "exited"]
        /\ UNCHANGED <<p, calls, last, prev, seen, ret, out, err>>

NextSim ==
    \/ run /\ UNCHANGED <<compVars, trajVars, pathVars, startVars>>
    \/ terminate /\ UNCHANGED <<compVars, trajVars, pathVars, startVars>>
    \/ is_alive /\ UNCHANGED <<compVars, trajVars, pathVars, startVars>>
    \/ ProcExit /\ UNCHANGED <<compVars, trajVars, pathVars, startVars>>

----------------------------------------------------------------------------
(* Paths and the file system.                                                *)
(* A path is the sequence of its components, the path string split at "/":  *)
(* "./" is <<".", "">>, "." is <<".">>, "/w" is <<"", "w">>, "a/x.dat" is    *)
(* <<"a", "x.dat">>. A location is the sequence of names from the root.      *)

DotSlash == <<".", "">>

\* the location of the caller's current directory
Cwd == <<"w">>

\* os.path.isabs
IsAbs(path) == Len(path) > 1 /\ path[1] = ""

\* os.path.basename: what follows the last "/"
basename(path) == path[Len(path)]

\* os.path.join(dir, name) for a name without "/"
join(dir, name) ==
    IF dir[Len(dir)] = "" THEN [dir EXCEPT ![Len(dir)] = name] ELSE Append(dir, name)

RECURSIVE Walk(_, _)
\* the kernel's path walk from location at along the components rest
Walk(at, rest) ==
    IF rest = << >> THEN at
    ELSE LET c == Head(rest)
         IN  IF c \in {"", "."} THEN Walk(at, Tail(rest))
             ELSE IF c = ".."
                  THEN Walk(IF at = << >> THEN at ELSE SubSeq(at, 1, Len(at) - 1),
                            Tail(rest))
                  ELSE Walk(Append(at, c), Tail(rest))

\* the location a path names, relative paths starting at the current directory
Resolve(path) == Walk(IF IsAbs(path) THEN << >> ELSE Cwd, path)

IsPrefix(a, b) == Len(a) <= Len(b) /\ SubSeq(b, 1, Len(a)) = a

Parent(loc) == SubSeq(loc, 1, Len(loc) - 1)

\* a relative path is looked up in the tree only while the current directory
\* is part of it
Reaches(s, path) == IsAbs(path) \/ s.live

\* os.path.exists; a current directory that was deleted is still there for
\* the process, empty and outside the tree
exists(s, path) ==
    IF Reaches(s, path) THEN Resolve(path) \in DOMAIN s.fs ELSE Resolve(path) = Cwd

EmptyMap == [k \in {} |-> ""]
DirNode == [kind |-> "dir", data |-> EmptyMap]
FileNode(d) == [kind |-> "file", data |-> d]

\* dict / InputFile item assignment
Put(m, k, v) == [x \in DOMAIN m \cup {k} |-> IF x = k THEN v ELSE m[x]]

Fail(s, e) == [s EXCEPT !.err = e]

\* shutil.rmtree(path): removes everything below the directory, then the
\* directory itself; rmdir refuses a path whose last component is "."
rmtree(s, path) ==
    IF s.err # "none" THEN s
    ELSE IF ~Reaches(s, path) THEN Fail(s, "OSError")
    ELSE LET t == Resolve(path)
             keepSelf == basename(path) = "."
             left == {q \in DOMAIN s.fs : ~IsPrefix(t, q) \/ (keepSelf /\ q = t)}
         IN  [fs   |-> [q \in left |-> s.fs[q]],
              live |-> s.live /\ (keepSelf \/ ~IsPrefix(t, Cwd)),
              err  |-> IF keepSelf THEN "OSError" ELSE "none"]

\* os.mkdir(path)
mkdir(s, path) ==
    IF s.err # "none" THEN s
    ELSE IF exists(s, path) THEN Fail(s, "FileExistsError")
    ELSE IF ~Reaches(s, path) \/ Parent(Resolve(path)) \notin DOMAIN s.fs
         THEN Fail(s, "FileNotFoundError")
    ELSE [s EXCEPT !.fs = Put(s.fs, Resolve(path), DirNode)]

\* open(path, "w").write(data)
writefile(s, path, data) ==
    IF s.err # "none" THEN s
    ELSE IF ~Reaches(s, path) \/ Parent(Resolve(path)) \notin DOMAIN s.fs
         THEN Fail(s, "FileNotFoundError")
    ELSE IF exists(s, path) /\ s.fs[Resolve(path)].kind = "dir"
         THEN Fail(s, "IsADirectoryError")
    ELSE [s EXCEPT !.fs = Put(s.fs, Resolve(path), FileNode(data))]

\* shutil.copyfile(src, dst)
copyfile(s, src, dst) ==
    IF s.err # "none" THEN s
    ELSE IF ~exists(s, src) THEN Fail(s, "FileNotFoundError")
    ELSE IF s.fs[Resolve(src)].kind = "dir" THEN Fail(s, "IsADirectoryError")
    ELSE IF exists(s, dst) /\ Resolve(dst) = Resolve(src) THEN Fail(s, "SameFileError")
    ELSE writefile(s, dst, s.fs[Resolve(src)].data)

----------------------------------------------------------------------------
(* Python values and str().                                                  *)
(* A value is a string, an int or a bool: [t, s, n, b].                      *)

StrVal(x)  == [t |-> "str",  s |-> x,  n |-> 0, b |-> FALSE]
IntVal(x)  == [t |-> "int",  s |-> "", n |-> x, b |-> FALSE]
BoolVal(x) == [t |-> "bool", s |-> "", n |-> 0, b |-> x]

Digit(d) ==
    CASE d = 0 -> "0" [] d = 1 -> "1" [] d = 2 -> "2" [] d = 3 -> "3" [] d = 4 -> "4"
      [] d = 5 -> "5" [] d = 6 -> "6" [] d = 7 -> "7" [] d = 8 -> "8" [] d = 9 -> "9"

RECURSIVE Decimal(_)
Decimal(n) == IF n < 10 THEN Digit(n) ELSE Decimal(n \div 10) \o Digit(n % 10)

\* str(v)
Str(v) ==
    CASE v.t = "str"  -> v.s
      [] v.t = "int"  -> IF v.n < 0 THEN "-" \o Decimal(0 - v.n) ELSE Decimal(v.n)
      [] v.t = "bool" -> PyBool(v.b)

\* default_input_file
default_input_file ==
    [T |-> "20C", steps |-> "1e9", salt_concentration |-> "1", backend |-> "CUDA",
     interaction_type |-> "DNA2", print_conf_interval |-> "1e5",
     print_energy_every |-> "1e4", dt |-> "0.005", sim_type |-> "MD",
     max_density_multiplier |-> "10", verlet_skin |-> "0.5", time_scale |-> "linear",
     ensemble |-> "NVT", thermostat |-> "john", diff_coeff |-> "2.5",
     backend_precision |-> "mixed", refresh_vel |-> "1", restart_step_counter |-> "1",
     newtonian_steps |-> "103", CUDA_list |-> "verlet", CUDA_sort_every |-> "0",
     use_edge |-> "1", edge_n_forces |-> "1", no_stdout_energy |-> "true"]

\* get_default_input(), as a parameters dictionary
get_default_input == [k \in DOMAIN default_input_file |-> StrVal(default_input_file[k])]

----------------------------------------------------------------------------
(* setup_simulation.                                                         *)

\* if force_dict, read as "a dictionary was given"
TruthyIfGiven(force_dict) == force_dict.given

\* if force_dict: a dictionary that was given and is not empty
Truthy(force_dict) == force_dict.given /\ DOMAIN force_dict.dict # {}

\* lines 114-139: the entries setup_simulation assigns by itself before it
\* reads parameters, assigned into input file m
OwnAssignments(m, a) ==
    LET i1 == Put(m, "topology", basename(a.top_path))
        i2 == Put(i1, "conf_file", basename(a.dat_path))
        i3 == Put(i2, "trajectory_file", "trajectory.dat")
        i4 == Put(i3, "energy_file", "energy.dat")
        i5 == Put(i4, "lastconf_file", "last_conf.dat")
    IN  IF Truthy(a.force_dict)
        THEN Put(Put(Put(i5, "external_forces_as_JSON", "true"),
                     "external_forces", "1"),
                 "external_forces_file", "forces.json")
        ELSE i5

\* for k,v in parameters.items(): input_file[k]=str(v)
Overlay(m, parameters) ==
    [k \in DOMAIN m \cup DOMAIN parameters |->
        IF k \in DOMAIN parameters THEN Str(parameters[k]) ELSE m[k]]

\* the input file with parameters assigned before the entries of lines 114-139
InputFileParamsFirst(a) ==
    Put(OwnAssignments(Overlay(EmptyMap, a.parameters), a), "log_file", "logfile")

\* the input file with log_file assigned before parameters are read
InputFileLogFirst(a) ==
    Overlay(Put(OwnAssignments(EmptyMap, a), "log_file", "logfile"), a.parameters)

\* the input file started from default_input_file instead of an empty one
InputFileFromDefaults(a) ==
    Put(Overlay(OwnAssignments(default_input_file, a), a.parameters),
        "log_file", "logfile")

\* the oxpy.InputFile that setup_simulation fills, in the order of its
\* assignments: its own entries, then parameters, then log_file
InputFileOf(a) ==
    Put(Overlay(OwnAssignments(EmptyMap, a), a.parameters), "log_file", "logfile")

\* lines 101-106 with the directory that is there kept and used again
PrepareDirReuse(s0, a) ==
    IF exists(s0, a.out_dir) THEN s0 ELSE mkdir(s0, a.out_dir)

\* lines 101-106 of setup_simulation, from file system state s0 = [fs, live,
\* err]: the state they leave, err naming the exception raised
PrepareDir(s0, a) ==
    LET s1 == IF a.kill_out_dir /\ a.out_dir # DotSlash /\ exists(s0, a.out_dir)
              THEN rmtree(s0, a.out_dir)
              ELSE s0
    IN  mkdir(s1, a.out_dir)

\* lines 107-153 of setup_simulation, from the state s2 that lines 101-106 left
FillDir(s2, a) ==
    LET out_top == join(a.out_dir, basename(a.top_path))
        s3 == IF s2.err = "none" /\ ~exists(s2, out_top)
              THEN copyfile(s2, a.top_path, out_top)
              ELSE s2
        out_dat == join(a.out_dir, basename(a.dat_path))
        last_conf_path == join(a.out_dir, "last_conf.dat")
        s4 == IF s3.err = "none" /\ ~exists(s3, out_dat)
              THEN copyfile(copyfile(s3, a.dat_path, out_dat), a.dat_path, last_conf_path)
              ELSE s3
        s5 == IF Truthy(a.force_dict)
              THEN writefile(s4, join(a.out_dir, "forces.json"), a.force_dict.dict)
              ELSE s4
    IN  writefile(s5, join(a.out_dir, "input"), InputFileOf(a))

\* lines 101-153 of setup_simulation
SetupBody(s0, a) == FillDir(PrepareDir(s0, a), a)

\* setup_simulation without the test of line 98 and deleting out_dir always
SetupAlwaysKill(s0, a) == SetupBody(s0, [a EXCEPT !.kill_out_dir = TRUE])

\* setup_simulation: the conflict test of lines 98-99, then the rest
setup_simulation(s0, a) ==
    IF exists(s0, a.out_dir) /\ ~a.kill_out_dir
    THEN Fail(s0, "DirectoryConflict")
    ELSE SetupBody(s0, a)

----------------------------------------------------------------------------
(* The calls of setup_simulation that are explored.                          *)

Raw(x) == [raw |-> x]

\* the caller's files: a topology and a configuration in a/, a topology
\* named like the configuration in b/, and a file of the caller's in the
\* current directory
InitFs ==
    (<< >> :> DirNode) @@ (<<"w">> :> DirNode)
    @@ (<<"w", "notes.txt">> :> FileNode(Raw("NOTES")))
    @@ (<<"w", "a">> :> DirNode)
    @@ (<<"w", "a", "t.top">> :> FileNode(Raw("TOP-A")))
    @@ (<<"w", "a", "x.dat">> :> FileNode(Raw("CONF-A")))
    @@ (<<"w", "b">> :> DirNode)
    @@ (<<"w", "b", "x.dat">> :> FileNode(Raw("TOP-B")))

\* (topology, configuration): distinct base names, equal base names, a
\* missing topology, a missing configuration
Sources ==
    { <<<<"a", "t.top">>, <<"a", "x.dat">>>>,
      <<<<"b", "x.dat">>, <<"a", "x.dat">>>>,
      <<<<"a", "gone.top">>, <<"a", "x.dat">>>>,
      <<<<"a", "t.top">>, <<"a", "gone.dat">>>> }

\* "./", ".", the absolute path of the current directory, and a new directory
OutDirs == {DotSlash, <<".">>, <<"", "w">>, <<"out">>}

ParamSets ==
    { EmptyMap,
      [steps |-> IntVal(1000), T |-> StrVal("25C")],
      [log_file |-> StrVal("mylog"), trajectory_file |-> StrVal("traj2.dat"),
       topology |-> StrVal("other.top"), no_stdout_energy |-> BoolVal(FALSE),
       external_forces_file |-> StrVal("my.json")],
      get_default_input }

ForceDicts ==
    { [given |-> FALSE, dict |-> EmptyMap],
      [given |-> TRUE,  dict |-> EmptyMap],
      [given |-> TRUE,  dict |-> [type |-> "trap"]] }

Args ==
    { [top_path |-> src[1], dat_path |-> src[2], out_dir |-> od, parameters |-> ps,
       force_dict |-> fd, kill_out_dir |-> k] :
        src \in Sources, od \in OutDirs, ps \in ParamSets, fd \in ForceDicts,
        k \in BOOLEAN }

NoCall == [op |-> "none"]

\* what is in the directory that path names, the directory apart
Below(f, live, path) ==
    IF IsAbs(path) \/ live
    THEN {q \in DOMAIN f : IsPrefix(Resolve(path), q) /\ q # Resolve(path)}
    ELSE {}

NoRes == [err |-> "none", ret |-> << >>]

InitComp ==
    /\ fs = InitFs
    /\ cwdLive = TRUE
    /\ call = NoCall
    /\ res = NoRes
    /\ partial = NoCall

\* one call of setup_simulation by the caller
SetupSimulation ==
    /\ call = NoCall
    /\ \E a \in Args :
        LET r == setup_simulation([fs |-> fs, live |-> cwdLive, err |-> "none"], a)
        IN  /\ fs' = r.fs
            /\ cwdLive' = r.live
            /\ call' = [op |-> "setup_simulation", args |-> a,
                        stale |-> Below(fs, cwdLive, a.out_dir)]
            /\ res' = [err |-> r.err,
                       ret |-> IF r.err = "none" THEN join(a.out_dir, "input") ELSE << >>]
            /\ partial' = IF r.err = "none" THEN NoCall
                           ELSE IF r.fs # fs THEN a
                           ELSE partial

\* the caller is done with the outcome of the call and goes on
Discard ==
    /\ call # NoCall
    /\ call' = NoCall
    /\ res' = NoRes
    /\ UNCHANGED <<fs, cwdLive, partial>>

\* the files a caller named without having them
MissingSources ==
    (<<"a", "gone.top">> :> Raw("TOP-G")) @@ (<<"a", "gone.dat">> :> Raw("CONF-G"))

\* the caller, between two calls, writes a file that was missing
FixSource ==
    /\ call = NoCall
    /\ cwdLive
    /\ \E path \in DOMAIN MissingSources :
         /\ Resolve(path) \notin DOMAIN fs
         /\ Parent(Resolve(path)) \in DOMAIN fs
         /\ fs' = Put(fs, Resolve(path), FileNode(MissingSources[path]))
    /\ UNCHANGED <<cwdLive, call, res, partial>>

NextCompose ==
    \/ SetupSimulation /\ UNCHANGED <<simVars, trajVars, pathVars, startVars>>
    \/ Discard /\ UNCHANGED <<simVars, trajVars, pathVars, startVars>>
    \/ FixSource /\ UNCHANGED <<simVars, trajVars, pathVars, startVars>>

----------------------------------------------------------------------------
(* The trajectory and its accessors.                                         *)
(* trajectory.dat is the file of out_dir that the input file names; the      *)
(* accessors run inside out_dir (path_decorator) and name it by abspath.     *)
(* A frame is named by its offset in the index: "conf0", "conf1", ...        *)

\* the ids a caller asks for: before the first frame to after the last
Ids == -1 .. MaxFrames + 1

NoAcc == [id |-> 0, read |-> FALSE, l |-> 0, delegated |-> FALSE]

\* a working directory as setup_simulation leaves it: no trajectory.dat
InitTraj ==
    /\ traj = -1
    /\ acc = NoAcc

\* the engine run by _prun (run_complete): it makes trajectory.dat, empty,
\* and then appends a frame at a time
EngineWrite ==
    /\ Executing(procs) # {}
    /\ traj < MaxFrames
    /\ traj' = traj + 1
    /\ UNCHANGED <<simVars, acc>>

\* describe(top, traj): the index of the whole frames of the file t; it reads
\* the file, which has to be there
describe(t) ==
    IF t = -1
    THEN [err |-> "FileNotFoundError", idxs |-> << >>]
    ELSE [err |-> "none", idxs |-> [k \in 1..t |-> k - 1]]

\* get_confs(ti, di, start, n): the n frames from start on; a range outside
\* the index is refused
get_confs(di, start, n) ==
    IF start >= 0 /\ start + n <= Len(di.idxs)
    THEN [err |-> "none", confs |-> [k \in 1..n |-> "conf" \o Decimal(di.idxs[start + k])]]
    ELSE [err |-> "OutOfRange", confs |-> << >>]

\* the body of get_conf with the test id <= l
GetConfInclusive(t, id) ==
    LET d == describe(t)
        l == Len(d.idxs)
    IN  IF d.err # "none"
        THEN [err |-> d.err, ret |-> "None",
              acc |-> [id |-> id, read |-> FALSE, l |-> l, delegated |-> FALSE]]
        ELSE IF id <= l
        THEN LET g == get_confs(d, id, 1)
             IN  [err |-> g.err,
                  ret |-> IF g.err = "none" THEN g.confs[1] ELSE "None",
                  acc |-> [id |-> id, read |-> TRUE, l |-> l, delegated |-> TRUE]]
        ELSE [err |-> "OutOfRange", ret |-> "None",
              acc |-> [id |-> id, read |-> TRUE, l |-> l, delegated |-> FALSE]]

\* the body of get_conf on the trajectory t: the exception, the value returned
\* and what the call did
GetConfBody(t, id) ==
    LET d == describe(t)
        l == Len(d.idxs)
    IN  IF d.err # "none"
        THEN [err |-> d.err, ret |-> "None",
              acc |-> [id |-> id, read |-> FALSE, l |-> l, delegated |-> FALSE]]
        ELSE IF id < l
        THEN LET g == get_confs(d, id, 1)
             IN  [err |-> g.err,
                  ret |-> IF g.err = "none" THEN g.confs[1] ELSE "None",
                  acc |-> [id |-> id, read |-> TRUE, l |-> l, delegated |-> TRUE]]
        ELSE [err |-> "OutOfRange", ret |-> "None",
              acc |-> [id |-> id, read |-> TRUE, l |-> l, delegated |-> FALSE]]

\* Simulation.get_conf
get_conf ==
    /\ Called("get_conf")
    /\ \E id \in Ids :
         LET g == GetConfBody(traj, id)
         IN  /\ err' = g.err
             /\ ret' = g.ret
             /\ acc' = g.acc
    /\ out' = ""
    /\ UNCHANGED <<procs, p, traj>>

\* Simulation.get_conf_count
get_conf_count ==
    /\ Called("get_conf_count")
    /\ LET d == describe(traj)
       IN  /\ err' = d.err
           /\ ret' = IF d.err = "none" THEN Decimal(Len(d.idxs)) ELSE "None"
    /\ out' = ""
    /\ UNCHANGED <<procs, p, traj, acc>>

NextTraj ==
    \/ run /\ UNCHANGED <<compVars, trajVars, pathVars, startVars>>
    \/ terminate /\ UNCHANGED <<compVars, trajVars, pathVars, startVars>>
    \/ ProcExit /\ UNCHANGED <<compVars, trajVars, pathVars, startVars>>
    \/ EngineWrite /\ UNCHANGED <<compVars, pathVars, startVars>>
    \/ get_conf_count /\ UNCHANGED <<compVars, pathVars, startVars>>
    \/ get_conf /\ UNCHANGED <<compVars, pathVars, startVars>>

----------------------------------------------------------------------------
(* PathContext.                                                              *)
(* The current directory belongs to the process; the flows of control that   *)
(* use PathContext objects (threads, callbacks) share it.                    *)

Flows == {1, 2}

\* the PathContext objects in use and the out_dir each was made with
Contexts ==
    [A |-> <<"", "w", "a">>, B |-> <<"", "w", "b">>, G |-> <<"", "w", "gone">>]

\* old_path = None
NoPath == <<"None">>

\* os.getcwd() in the current directory c
getcwd(c) == <<"">> \o c

\* os.chdir(path) in the current directory c of file system f
chdir(f, c, path) ==
    LET loc == Walk(IF IsAbs(path) THEN << >> ELSE c, path)
    IN  IF path = NoPath THEN [cwd |-> c, err |-> "TypeError"]
        ELSE IF loc \in DOMAIN f /\ f[loc].kind = "dir" THEN [cwd |-> loc, err |-> "none"]
        ELSE [cwd |-> c, err |-> "FileNotFoundError"]

\* __enter__ that leaves old_path as it is
EnterKeepsOldPath(old, out_dir, c, f) ==
    LET r == chdir(f, c, out_dir)
    IN  [old_path |-> old, cwd |-> r.cwd, err |-> r.err]

\* PathContext.__enter__ on an object with old_path old and out_dir
PathContextEnter(old, out_dir, c, f) ==
    LET r == chdir(f, c, out_dir)
    IN  [old_path |-> getcwd(c), cwd |-> r.cwd, err |-> r.err]

\* PathContext.__exit__
PathContextExit(old, c, f) == chdir(f, c, old)

\* PathContext.__init__ for every object; the process is in Cwd
InitPath ==
    /\ cwd = Cwd
    /\ old_path = [i \in DOMAIN Contexts |-> NoPath]
    /\ stack = [fl \in Flows |-> << >>]
    /\ exc = [fl \in Flows |-> FALSE]
    /\ log = << >>

Logged(fl, op, i, at) ==
    /\ Len(log) < MaxEvents
    /\ log' = Append(log, [f |-> fl, op |-> op, c |-> i, at |-> at])

\* flow fl reaches "with ctx:" (or a function decorated with ctx) for the
\* PathContext object i; an exception of __enter__ propagates in fl
Enter(fl, i) ==
    /\ ~exc[fl]
    /\ Len(stack[fl]) < MaxDepth
    /\ LET r == PathContextEnter(old_path[i], Contexts[i], cwd, fs)
       IN  /\ old_path' = [old_path EXCEPT ![i] = r.old_path]
           /\ cwd' = r.cwd
           /\ stack' = IF r.err = "none" THEN [stack EXCEPT ![fl] = Append(@, i)] ELSE stack
           /\ exc' = [exc EXCEPT ![fl] = r.err # "none" /\ stack[fl] # << >>]
           /\ Logged(fl, IF r.err = "none" THEN "enter" ELSE "fail", i, r.cwd)

\* flow fl, inside a PathContext, does its work in the current directory
Body(fl) ==
    /\ ~exc[fl]
    /\ stack[fl] # << >>
    /\ Logged(fl, "body", stack[fl][Len(stack[fl])], cwd)
    /\ UNCHANGED <<cwd, old_path, stack, exc>>

\* the work of flow fl inside a PathContext raises
Raise(fl) ==
    /\ ~exc[fl]
    /\ stack[fl] # << >>
    /\ exc' = [exc EXCEPT ![fl] = TRUE]
    /\ Logged(fl, "raise", stack[fl][Len(stack[fl])], cwd)
    /\ UNCHANGED <<cwd, old_path, stack>>

\* flow fl leaves its innermost PathContext, by return or by exception; the
\* exception ends where the outermost block ends
Exit(fl) ==
    /\ stack[fl] # << >>
    /\ LET i == stack[fl][Len(stack[fl])]
           r == PathContextExit(old_path[i], cwd, fs)
       IN  /\ cwd' = r.cwd
           /\ stack' = [stack EXCEPT ![fl] = SubSeq(@, 1, Len(@) - 1)]
           /\ exc' = [exc EXCEPT ![fl] = Len(stack[fl]) > 1 /\ (@ \/ r.err # "none")]
           /\ Logged(fl, "exit", i, r.cwd)
    /\ UNCHANGED old_path

NextPath ==
    \/ \E fl \in Flows, i \in DOMAIN Contexts :
           Enter(fl, i) /\ UNCHANGED <<simVars, compVars, trajVars, startVars>>
    \/ \E fl \in Flows : Body(fl) /\ UNCHANGED <<simVars, compVars, trajVars, startVars>>
    \/ \E fl \in Flows : Raise(fl) /\ UNCHANGED <<simVars, compVars, trajVars, startVars>>
    \/ \E fl \in Flows : Exit(fl) /\ UNCHANGED <<simVars, compVars, trajVars, startVars>>

----------------------------------------------------------------------------
(* Simulation.__init__, run and the process it starts.                       *)
(* The composed directory is /w/a with its input file; the caller names the  *)
(* input file by a relative or an absolute path and moves between            *)
(* directories. A child process begins in the directory its parent was in.   *)

\* where the input file is
InputDir == <<"w", "a">>

\* the paths a caller gives Simulation(...) for it
InputPaths == {<<"a", "input">>, <<"", "w", "a", "input">>}

\* the directories the caller moves between
CallerDirs == {<<"w">>, <<"w", "b">>, << >>}

\* dirname(abspath(path)) in the current directory c
DirOf(c, path) == Parent(Walk(IF IsAbs(path) THEN << >> ELSE c, path))

NoSim == [made |-> FALSE, path |-> << >>, out_dir |-> << >>, parsed |-> 0]

InitStart ==
    /\ sim = NoSim
    /\ edits = 0
    /\ runs = << >>

\* Simulation(path): it parses the input file, which has to be found
Construct ==
    /\ ~sim.made
    /\ \E path \in InputPaths :
         /\ DirOf(cwd, path) = InputDir
         /\ sim' = [made |-> TRUE, path |-> path, out_dir |-> DirOf(cwd, path),
                    parsed |-> edits]
    /\ UNCHANGED <<edits, runs, cwd>>

\* the caller changes directory
Chdir ==
    /\ \E d \in CallerDirs \ {cwd} : cwd' = chdir(fs, cwd, getcwd(d)).cwd
    /\ UNCHANGED <<sim, edits, runs>>

\* the caller edits the input file on disk
Edit ==
    /\ edits < MaxEdits
    /\ edits' = edits + 1
    /\ UNCHANGED <<sim, runs, cwd>>

\* Simulation.run on the object made: the Process is given the path as the
\* caller wrote it, and starts in the caller's directory
Start ==
    /\ sim.made
    /\ Len(runs) < MaxStarts
    /\ run
    /\ runs' = IF Len(procs') > Len(procs)
               THEN Append(runs, [arg |-> sim.path, at |-> cwd, ver |-> edits,
                                  stage |-> IF procs'[Len(procs')] = "running"
                                            THEN "spawned" ELSE "none",
                                  dir |-> << >>, read |-> 0])
               ELSE runs
    /\ UNCHANGED <<sim, edits, cwd>>

\* _prun in process i: it computes the directory from its argument and its
\* own current directory, enters it and parses the input file it finds there;
\* an exception ends the process
Prun ==
    \E i \in Executing(procs) :
        /\ runs[i].stage = "spawned"
        /\ LET path == DirOf(runs[i].at, runs[i].arg)
               r == PathContextEnter(NoPath, getcwd(path), runs[i].at, fs)
               found == r.err = "none" /\ r.cwd = InputDir
           IN  /\ runs' = [runs EXCEPT ![i] =
                             [@ EXCEPT !.stage = IF found THEN "parsed" ELSE "raised",
                                       !.dir = r.cwd,
                                       !.read = IF found THEN edits ELSE 0]]
               /\ procs' = IF found THEN procs ELSE [procs EXCEPT ![i] = "exited"]
        /\ UNCHANGED <<p, calls, last, prev, seen, ret, out, err, sim, edits, cwd>>

NextStart ==
    \/ Construct /\ UNCHANGED <<simVars, compVars, trajVars, old_path, stack, exc, log>>
    \/ Chdir /\ UNCHANGED <<simVars, compVars, trajVars, old_path, stack, exc, log>>
    \/ Edit /\ UNCHANGED <<simVars, compVars, trajVars, old_path, stack, exc, log>>
    \/ Start /\ UNCHANGED <<compVars, trajVars, old_path, stack, exc, log>>
    \/ Prun /\ UNCHANGED <<compVars, trajVars, old_path, stack, exc, log>>
    \/ ProcExit /\ UNCHANGED <<compVars, trajVars, pathVars, startVars>>

----------------------------------------------------------------------------

Init == InitSim /\ InitComp /\ InitTraj /\ InitPath /\ InitStart

Spec == Init /\ [][NextSim]_vars

SpecCompose == Init /\ [][NextCompose]_vars

SpecTraj == Init /\ [][NextTraj]_vars

SpecPath == Init /\ [][NextPath]_vars

SpecStart == Init /\ [][NextStart]_vars

----------------------------------------------------------------------------
(* The claims about the Simulation handle.                                   *)

\* C1 (as claimed): at every moment at most one engine process spawned by the
\* handle is executing. run() only signals the previous process, so the code
\* violates it.
C1_AtMostOneEngine == Cardinality(Executing(procs)) <= 1

\* C2 (as claimed): an is_alive made directly after a terminate on a handle
\* whose process was executing reports False. The code violates it.
C2_TerminateThenNotAlive ==
    (last = "is_alive" /\ prev = "terminate" /\ p # 0 /\ procs[p] # "initial")
        => out = "False"

\* C3 (as claimed): is_alive returns a boolean, True directly after a start
\* that spawned the engine and False, without raising, on a handle never
\* started. The code returns None and violates it.
C3_IsAliveReturnsBool ==
    last = "is_alive" =>
        /\ ret \in {"True", "False"}
        /\ err = "none"
        /\ (seen = "running" /\ prev = "run" => ret = "True")
        /\ (seen = "None" => ret = "False")

\* C4: terminate raises nothing and leaves the handle and its processes as
\* they were, both on a handle never started and on a handle whose process
\* has already ended.
C4_TerminateIdleNoOp ==
    [][(calls' = calls + 1 /\ last' = "terminate" /\ Seen \in {"None", "exited"})
          => (err' = "none" /\ procs' = procs /\ p' = p)]_vars

\* C4 witness: a terminate has returned on a handle whose process had ended
\* before the call, after an earlier terminate
C4_Witness ==
    last = "terminate" /\ prev = "terminate" /\ seen = "exited" /\ err = "none"

----------------------------------------------------------------------------
(* The claims about setup_simulation.                                        *)

\* a step that is a call of setup_simulation; its arguments are call'.args
SetupStep == call = NoCall /\ call' # NoCall

\* the file system state before the step
Before == [fs |-> fs, live |-> cwdLive, err |-> "none"]

\* a call of setup_simulation has returned its input file path
Composed == call # NoCall /\ res.err = "none"

\* the parameters of the input file it wrote
Written == fs[Resolve(res.ret)].data

\* C5: a call without kill_out_dir on an out_dir that exists raises the
\* conflict error and leaves the file system exactly as it was.
C5_ConflictNoMutation ==
    [][(SetupStep /\ ~call'.args.kill_out_dir /\ exists(Before, call'.args.out_dir))
          => (res'.err = "DirectoryConflict" /\ fs' = fs /\ cwdLive' = cwdLive)]_vars

\* C5 witness: a second call into the directory an earlier call composed
\* has been refused
C5_Witness ==
    /\ call # NoCall
    /\ res.err = "DirectoryConflict"
    /\ call.args.out_dir = <<"out">>
    /\ <<"w", "out", "input">> \in DOMAIN fs

\* C6 (as claimed): a call with kill_out_dir whose out_dir names the current
\* directory removes nothing of the current directory's tree. The code
\* compares out_dir with the string "./" only and violates it.
C6_CwdNeverDeleted ==
    [][(SetupStep /\ call'.args.kill_out_dir /\ cwdLive
          /\ Resolve(call'.args.out_dir) = Cwd)
          => (cwdLive' /\ \A q \in DOMAIN fs : IsPrefix(Cwd, q) => q \in DOMAIN fs')]_vars

\* C7 (as claimed): for every key of parameters the written input file holds
\* str(the caller's value). The code violates it for log_file.
C7_CallerAlwaysWins ==
    Composed =>
        \A k \in DOMAIN call.args.parameters :
            Written[k] = Str(call.args.parameters[k])

\* C7 (amended): for every key of parameters other than log_file the written
\* input file holds str(the caller's value); log_file is logfile.
C7_CallerWinsExceptLogFile ==
    Composed =>
        /\ \A k \in DOMAIN call.args.parameters \ {"log_file"} :
               Written[k] = Str(call.args.parameters[k])
        /\ Written["log_file"] = "logfile"

\* C7 witness: composed from parameters that hold a key setup_simulation
\* sets itself, an int value and log_file
C7_Witness ==
    /\ Composed
    /\ {"trajectory_file", "log_file"} \subseteq DOMAIN call.args.parameters
    /\ Written["trajectory_file"] = "traj2.dat"
    /\ Written["no_stdout_energy"] = "False"

CanonicalOutputs ==
    [trajectory_file |-> "trajectory.dat", energy_file |-> "energy.dat",
     lastconf_file |-> "last_conf.dat", log_file |-> "logfile"]

\* C8 (as claimed): the four output-file parameters of every written input
\* file have their canonical values. The code lets parameters override three.
C8_OutputsCanonical ==
    Composed => \A k \in DOMAIN CanonicalOutputs : Written[k] = CanonicalOutputs[k]

\* C8 (amended): log_file is always logfile; trajectory_file, energy_file and
\* lastconf_file have their canonical values exactly when parameters does not
\* hold the key, and the caller's value otherwise.
C8_OutputsCanonicalUnlessGiven ==
    Composed =>
        \A k \in DOMAIN CanonicalOutputs :
            Written[k] = IF k # "log_file" /\ k \in DOMAIN call.args.parameters
                         THEN Str(call.args.parameters[k])
                         ELSE CanonicalOutputs[k]

\* C8 witness: composed from parameters that try to override log_file and
\* trajectory_file: the first stays canonical, the second does not
C8_Witness ==
    /\ Composed
    /\ "log_file" \in DOMAIN call.args.parameters
    /\ Str(call.args.parameters["log_file"]) # "logfile"
    /\ Written["log_file"] = "logfile"
    /\ Written["trajectory_file"] # "trajectory.dat"
    /\ Written["energy_file"] = "energy.dat"

\* C9 (as claimed): every key of default_input_file that parameters does not
\* hold is in the written input file with its default, and topology and
\* conf_file are the copied base names. The code adds no default.
C9_DefaultsOverlaid ==
    Composed =>
        /\ \A k \in DOMAIN default_input_file \ DOMAIN call.args.parameters :
               k \in DOMAIN Written /\ Written[k] = default_input_file[k]
        /\ "topology" \notin DOMAIN call.args.parameters
               => Written["topology"] = basename(call.args.top_path)
        /\ "conf_file" \notin DOMAIN call.args.parameters
               => Written["conf_file"] = basename(call.args.dat_path)

\* the entries setup_simulation sets by itself
OwnEntries(a) ==
    [k \in {"topology", "conf_file", "trajectory_file", "energy_file", "lastconf_file",
            "log_file"}
           \cup (IF Truthy(a.force_dict)
                 THEN {"external_forces_as_JSON", "external_forces", "external_forces_file"}
                 ELSE {}) |->
        CASE k = "topology" -> basename(a.top_path)
          [] k = "conf_file" -> basename(a.dat_path)
          [] k \in DOMAIN CanonicalOutputs -> CanonicalOutputs[k]
          [] k = "external_forces_as_JSON" -> "true"
          [] k = "external_forces" -> "1"
          [] k = "external_forces_file" -> "forces.json"]

\* C9 (amended): the written input file is the entries setup_simulation sets
\* by itself overlaid by parameters, log_file excepted; no entry of
\* default_input_file is added, so a default key is there only when
\* parameters holds it.
C9_OwnEntriesOverlaid ==
    Composed =>
        LET a == call.args
            own == OwnEntries(a)
        IN  /\ DOMAIN Written = DOMAIN own \cup DOMAIN a.parameters
            /\ \A k \in DOMAIN Written :
                   Written[k] = IF k # "log_file" /\ k \in DOMAIN a.parameters
                                THEN Str(a.parameters[k])
                                ELSE own[k]
            /\ \A k \in DOMAIN default_input_file \ DOMAIN a.parameters :
                   k \notin DOMAIN Written

\* C9 witness: the scenario parameters {steps: 1000, T: "25C"}, composed
\* without forces: steps and T are written, backend is not
C9_Witness ==
    /\ Composed
    /\ DOMAIN call.args.parameters = {"steps", "T"}
    /\ ~call.args.force_dict.given
    /\ Written["steps"] = "1000"
    /\ Written["T"] = "25C"
    /\ "backend" \notin DOMAIN Written
    /\ Written["topology"] = "t.top"

\* C10 (as claimed): a call that succeeds into an absent out_dir, from a
\* topology and a configuration that exist, leaves in out_dir a copy of each
\* under its base name, last_conf.dat with the configuration's content, and
\* the input file. The code violates it when the base names are equal.
C10_CopiesPresent ==
    [][(SetupStep /\ res'.err = "none" /\ ~exists(Before, call'.args.out_dir)
          /\ exists(Before, call'.args.top_path) /\ exists(Before, call'.args.dat_path))
          => LET a == call'.args
                 dir == Resolve(a.out_dir)
                 top == fs[Resolve(a.top_path)]
                 dat == fs[Resolve(a.dat_path)]
             IN  /\ Append(dir, basename(a.top_path)) \in DOMAIN fs'
                 /\ fs'[Append(dir, basename(a.top_path))] = top
                 /\ Append(dir, basename(a.dat_path)) \in DOMAIN fs'
                 /\ fs'[Append(dir, basename(a.dat_path))] = dat
                 /\ Append(dir, "last_conf.dat") \in DOMAIN fs'
                 /\ fs'[Append(dir, "last_conf.dat")] = dat
                 /\ Append(dir, "input") \in DOMAIN fs']_vars

\* the names setup_simulation writes into out_dir
FreshNames(a) ==
    {basename(a.top_path), basename(a.dat_path), "last_conf.dat", "input"}
        \cup (IF Truthy(a.force_dict) THEN {"forces.json"} ELSE {})

\* the step just taken is a call with kill_out_dir on an out_dir that was there
\* and held something, from a topology and a configuration that exist
KillStep ==
    /\ SetupStep
    /\ call'.args.kill_out_dir
    /\ call'.stale # {}
    /\ exists(Before, call'.args.top_path)
    /\ exists(Before, call'.args.dat_path)

\* the call of the step just taken succeeded and out_dir holds nothing but what
\* this call wrote: each entry has a name and a content this call writes
OnlyFresh ==
    LET a == call'.args
        dir == Resolve(a.out_dir)
    IN  /\ res'.err = "none"
        /\ \A q \in Below(fs', cwdLive', a.out_dir) :
               /\ q \in {Append(dir, n) : n \in FreshNames(a)}
               /\ fs'[q] \in {fs[Resolve(a.top_path)], fs[Resolve(a.dat_path)],
                              FileNode(InputFileOf(a)), FileNode(a.force_dict.dict)}
        /\ fs'[Append(dir, "input")] = FileNode(InputFileOf(a))

ForceEntries ==
    [external_forces_as_JSON |-> "true", external_forces |-> "1",
     external_forces_file |-> "forces.json"]

\* where the composed call of this state writes forces.json
ForcesJson == Append(Resolve(call.args.out_dir), "forces.json")

\* C12 (as claimed): a call given force_dict writes it to forces.json and
\* writes the three force entries; a call not given one writes no forces.json
\* and adds none of the three. The code violates it for a force_dict that is
\* given and empty, and for a force entry that parameters holds too.
C12_ForcesWhenSupplied ==
    Composed =>
        IF call.args.force_dict.given
        THEN /\ ForcesJson \in DOMAIN fs
             /\ fs[ForcesJson] = FileNode(call.args.force_dict.dict)
             /\ \A k \in DOMAIN ForceEntries :
                    k \in DOMAIN Written /\ Written[k] = ForceEntries[k]
        ELSE /\ ForcesJson \notin DOMAIN fs
             /\ \A k \in DOMAIN ForceEntries \ DOMAIN call.args.parameters :
                    k \notin DOMAIN Written

\* C12 (amended): a call given a force_dict that is not empty writes it to
\* forces.json and writes the three force entries, each with its value unless
\* parameters holds the key, which then has the caller's value; a call given
\* no force_dict, or an empty one, writes no forces.json and adds none of the
\* three.
C12_ForcesWhenNotEmpty ==
    Composed =>
        LET a == call.args
        IN  IF a.force_dict.given /\ DOMAIN a.force_dict.dict # {}
            THEN /\ ForcesJson \in DOMAIN fs
                 /\ fs[ForcesJson] = FileNode(a.force_dict.dict)
                 /\ \A k \in DOMAIN ForceEntries :
                        /\ k \in DOMAIN Written
                        /\ Written[k] = IF k \in DOMAIN a.parameters
                                        THEN Str(a.parameters[k])
                                        ELSE ForceEntries[k]
            ELSE /\ ForcesJson \notin DOMAIN fs
                 /\ \A k \in DOMAIN ForceEntries \ DOMAIN a.parameters :
                        k \notin DOMAIN Written

\* C12 witness: composed with a force_dict that holds a force: forces.json
\* holds it and the input file names forces.json
C12_Witness ==
    /\ Composed
    /\ call.args.force_dict.given
    /\ DOMAIN call.args.force_dict.dict # {}
    /\ ForcesJson \in DOMAIN fs
    /\ fs[ForcesJson].data = call.args.force_dict.dict
    /\ Written["external_forces_file"] = "forces.json"
    /\ Written["external_forces"] = "1"

\* the step just taken is the call repeated, with a topology and a
\* configuration that now exist, after it had failed part way into out_dir
RetryStep ==
    /\ SetupStep
    /\ partial = call'.args
    /\ exists(Before, call'.args.top_path)
    /\ exists(Before, call'.args.dat_path)

\* C17 (as claimed): a call that failed after it had changed out_dir, made
\* again with the same arguments once the file it missed exists, succeeds, and
\* keeps the copy that was already in out_dir. The code raises at the conflict
\* test when kill_out_dir is false and deletes the copy when it is true.
C17_RetrySucceeds ==
    [][RetryStep
         => /\ res'.err = "none"
            /\ \A q \in call'.stale : q \in DOMAIN fs' /\ fs'[q] = fs[q]]_vars

\* C16 (as claimed): on a handle whose last spawn failed, so that p refers to
\* a Process never started, is_alive and terminate return without raising and
\* run makes a new spawn, which works or raises as a spawn does. The code
\* raises AttributeError from p.terminate() in terminate and in run.
C16_UsableAfterSpawnFailure ==
    (last \in {"run", "terminate", "is_alive"} /\ seen = "initial")
        => /\ err \in (IF last = "run" THEN {"none", "OSError"} ELSE {"none"})
           /\ last = "run" => p = Len(procs)

----------------------------------------------------------------------------
(* The claims about the trajectory accessors.                                *)

\* the step just taken is a get_conf call that read the count of frames
GetConfStep == calls' = calls + 1 /\ last' = "get_conf" /\ acc'.read

\* C13: get_conf tests id against the count of frames in the file as the call
\* finds it: for every id >= count it raises without calling get_confs, and
\* for id = count - 1, count > 0, it calls get_confs and returns that frame.
C13_BoundsChecked ==
    [][GetConfStep
         => /\ acc'.l = traj
            /\ acc'.id >= acc'.l
                 => err' = "OutOfRange" /\ ~acc'.delegated /\ ret' = "None"
            /\ (acc'.l > 0 /\ acc'.id = acc'.l - 1)
                 => err' = "none" /\ acc'.delegated /\ ret' = "conf" \o Decimal(acc'.id)]_vars

\* C13 witness: while an engine runs and the file holds frames, get_conf was
\* asked for id = count and raised without calling get_confs
C13_Witness ==
    /\ last = "get_conf"
    /\ Executing(procs) # {}
    /\ acc.read
    /\ acc.l > 0
    /\ acc.id = acc.l
    /\ err = "OutOfRange"
    /\ ~acc.delegated

\* C14 (as claimed): get_conf_count on a handle that was started and then
\* terminated before the engine wrote a frame, trajectory.dat empty or not
\* there, returns 0 and raises nothing. The code raises when the file is not
\* there.
C14_CountSafeBeforeFrames ==
    (/\ last = "get_conf_count"
     /\ prev = "terminate"
     /\ p # 0
     /\ procs[p] # "initial"
     /\ traj <= 0)
        => err = "none" /\ ret = "0"

----------------------------------------------------------------------------
(* The claims about PathContext.                                             *)

\* what the flows did, without the directories they did it in
Shape == [k \in 1..Len(log) |-> <<log[k].f, log[k].op, log[k].c>>]

\* C15 (as claimed): when one flow alone has entered and left PathContext
\* blocks, nested as blocks are, by return or by exception, and is outside
\* every block, the current directory is the one it began in; so too after an
\* __enter__ that failed. The code violates it when a PathContext object is
\* entered while the flow is already inside it.
C15_RestoresAfterNesting ==
    ((\A k \in 1..Len(log) : log[k].f = 1) /\ stack[1] = << >>) => cwd = Cwd

\* C19: two flows in PathContext blocks on different directories, not
\* serialized: once flow 1 has entered i and flow 2 then j, the work of flow 1
\* runs in the directory of j; when flow 1 has left, the work of flow 2 runs
\* in the directory the process began in; and when flow 2 has left too, both
\* out of their blocks, the current directory is that of i, not the one the
\* process began in.
C19_InterleavedScopesMisdirect ==
    \A i, j \in {"A", "B"} :
        i # j =>
            LET ti == Resolve(Contexts[i])
                tj == Resolve(Contexts[j])
                e1 == <<1, "enter", i>>
                e2 == <<2, "enter", j>>
            IN  /\ Shape = <<e1, e2, <<1, "body", i>>>>
                     => log[3].at = tj /\ log[3].at # ti
                /\ Shape = <<e1, e2, <<1, "exit", i>>, <<2, "body", j>>>>
                     => log[4].at = Cwd /\ log[4].at # tj
                /\ Shape = <<e1, e2, <<1, "exit", i>>, <<2, "exit", j>>>>
                     => /\ stack = [fl \in Flows |-> << >>]
                        /\ cwd = ti
                        /\ cwd # Cwd

\* C19 witness: flow 1 entered A, flow 2 entered B, flow 1 left, flow 2 left,
\* and the process is in the directory of A
C19_Witness ==
    /\ Shape = <<<<1, "enter", "A">>, <<2, "enter", "B">>,
                 <<1, "exit", "A">>, <<2, "exit", "B">>>>
    /\ stack = [fl \in Flows |-> << >>]
    /\ cwd = <<"w", "a">>

----------------------------------------------------------------------------
(* The claims about run and the process it starts.                           *)

\* the processes in which _prun has come to its parse, or has raised before
Begun == {i \in 1..Len(runs) : runs[i].stage \in {"parsed", "raised"}}

\* C18 (as claimed): a process started by run after the input file was edited
\* since the Simulation object parsed it parses the file as it is on disk when
\* run is called or later, with those edits, not as the object parsed it. The
\* code violates it when the path is relative and the caller changed
\* directory: the process finds no input file (C20).
C18_StartReparses ==
    \A i \in Begun :
        runs[i].ver > sim.parsed
            => /\ runs[i].stage = "parsed"
               /\ runs[i].read >= runs[i].ver
               /\ runs[i].read # sim.parsed

\* C20 (as claimed): a process started by run enters the out_dir of the
\* Simulation object and parses the input file there, whatever the path the
\* object was made from and wherever the caller is when it calls run. The code
\* violates it for a relative path after the caller changed directory.
C20_RunsInOutDir ==
    \A i \in Begun : runs[i].stage = "parsed" /\ runs[i].dir = sim.out_dir

----------------------------------------------------------------------------
(* The claim about the ids get_conf hands on.                                *)

\* C21 (as claimed): get_conf calls get_confs only with an id from 0 to
\* count - 1; for every other id, the negative ones too, it raises its own
\* error and get_confs is not called. The code tests id < count alone, so a
\* negative id is handed to get_confs.
C21_DelegatesOnlyInRange ==
    (last = "get_conf" /\ acc.read)
        => /\ acc.delegated => acc.id \in 0 .. acc.l - 1
           /\ acc.id \notin 0 .. acc.l - 1 => ~acc.delegated /\ err = "OutOfRange"

====
